---- MODULE Spec2Model ----
(***************************************************************************)
(* Model of the Obsidian plugin LatexConverterPlugin (src/main.ts).         *)
(*                                                                          *)
(* Text is modelled as sequences of one-character strings, so that every    *)
(* string operation of the code (replace, split, trim, includes, JSON.parse,*)
(* TextDecoder.decode) is computed character by character as the code and   *)
(* the JavaScript library compute it.                                       *)
(***************************************************************************)
EXTENDS Integers, Sequences, FiniteSets, TLC

VARIABLES
    doc,        \* the editor's document, a sequence of characters
    sel,        \* the editor's current selection, [from, to] as offsets into doc
    llmPrompt,  \* settings.llmPrompt
    inv,        \* per invocation of convertToLatex: its locals and what it did
    log         \* the order of calls and completions, for the ordering claims

vars == <<doc, sel, llmPrompt, inv, log>>

\* ------------------------------------------------------------------ bounds

\* number of convertToLatex invocations that may be in flight together
MaxInvocations == 2
\* longest selection text drawn for the prompt-building specification
MaxInputLen == 3
\* most reads a response body is divided into
MaxReads == 4

Invocations == 1..MaxInvocations

\* ------------------------------------------------------- string primitives

BS == "\\"
DQ == "\""
LF == "\n"
CR == "\r"
TAB == "\t"
\* the backtick and the single quote
BT == "backtick"
SQ == "'"
\* U+FFFD, what TextDecoder emits for a malformed byte sequence
FFFD == "U+FFFD"
\* the two bytes of the UTF-8 encoding of e-acute, and the decoded character
ByteC3 == "0xC3"
ByteA9 == "0xA9"
EAcute == "e'"

RECURSIVE Flatten(_)
\* concatenation of a sequence of sequences
Flatten(ss) == IF ss = <<>> THEN <<>> ELSE Head(ss) \o Flatten(Tail(ss))

\* s from offset i (1-based) to its end
From(s, i) == SubSeq(s, i, Len(s))

\* whether pat occurs in s at 1-based position i
MatchAt(s, pat, i) ==
    /\ i >= 1
    /\ i + Len(pat) - 1 <= Len(s)
    /\ SubSeq(s, i, i + Len(pat) - 1) = pat

\* String.prototype.indexOf: the first position of pat in s, 0 if none
IndexOf(s, pat) ==
    LET hits == {i \in 1..(Len(s) + 1) : MatchAt(s, pat, i)}
    IN  IF hits = {} THEN 0 ELSE CHOOSE i \in hits : \A j \in hits : i <= j

\* String.prototype.includes
Includes(s, pat) == IndexOf(s, pat) # 0

\* ECMAScript WhiteSpace and LineTerminator, within the model's alphabet
IsSpace(c) == c \in {" ", LF, CR, TAB}

RECURSIVE TrimStart(_)
TrimStart(s) ==
    IF s # <<>> /\ IsSpace(Head(s)) THEN TrimStart(Tail(s)) ELSE s

RECURSIVE TrimEnd(_)
TrimEnd(s) ==
    IF s # <<>> /\ IsSpace(s[Len(s)]) THEN TrimEnd(SubSeq(s, 1, Len(s) - 1)) ELSE s

\* String.prototype.trim
Trim(s) == TrimEnd(TrimStart(s))

\* --------------------------------------------- callLocalLLM: the prompt

RECURSIVE ReplaceAllChar(_, _, _)
\* s.replace(/c/g, rep) for a one-character pattern c and a replacement rep
\* that holds no "$" pattern: every occurrence, left to right
ReplaceAllChar(s, c, rep) ==
    IF s = <<>> THEN <<>>
    ELSE (IF Head(s) = c THEN rep ELSE <<Head(s)>>) \o ReplaceAllChar(Tail(s), c, rep)

\* a plausible slip: quotes escaped before backslashes
SanitizeQuotesFirst(input) ==
    ReplaceAllChar(ReplaceAllChar(input, DQ, <<BS, DQ>>), BS, <<BS, BS>>)

\* main.ts:64  input.replace(/\\/g, "\\\\").replace(/"/g, '\\"')
Sanitize(input) ==
    ReplaceAllChar(ReplaceAllChar(input, BS, <<BS, BS>>), DQ, <<BS, DQ>>)

RECURSIVE GetSubstitution(_, _, _, _)
\* ECMAScript GetSubstitution for a string pattern (no captures): expands the
\* "$" patterns of the replacement text.  matched is the matched substring,
\* before and after the parts of the subject around it.
GetSubstitution(matched, before, after, rep) ==
    IF rep = <<>> THEN <<>>
    ELSE IF Head(rep) = "$" /\ Len(rep) >= 2 /\ rep[2] \in {"$", "&", BT, SQ}
    THEN (CASE rep[2] = "$" -> <<"$">>
            [] rep[2] = "&" -> matched
            [] rep[2] = BT -> before
            [] rep[2] = SQ -> after)
         \o GetSubstitution(matched, before, after, From(rep, 3))
    ELSE <<Head(rep)>> \o GetSubstitution(matched, before, after, Tail(rep))

\* String.prototype.replace(pattern, replacement) with a string pattern: the
\* first occurrence only, the replacement expanded by GetSubstitution
JSReplaceFirst(s, pat, rep) ==
    LET p == IndexOf(s, pat)
    IN  IF p = 0 THEN s
        ELSE LET before == SubSeq(s, 1, p - 1)
                 after == From(s, p + Len(pat))
             IN  before \o GetSubstitution(pat, before, after, rep) \o after

Placeholder == <<"{", "i", "n", "p", "u", "t", "}">>

\* main.ts:65  this.settings.llmPrompt.replace("{input}", sanitizedInput)
BuildPrompt(template, sanitizedInput) ==
    JSReplaceFirst(template, Placeholder, sanitizedInput)

\* ------------------------------------------------- callLocalLLM: the stream

\* main.ts:95  new TextDecoder().decode(value): UTF-8, not fatal, a decoder of
\* its own for every read.  A lead byte followed by its continuation byte is
\* one character; a lead byte without it (also at the end of the read) and a
\* continuation byte on its own each decode to U+FFFD.
Decode(bytes) ==
    LET Continues(p) == p > 1 /\ bytes[p] = ByteA9 /\ bytes[p - 1] = ByteC3
        At(p) == IF Continues(p) THEN "(continuation)"
                 ELSE IF bytes[p] = ByteC3
                 THEN IF p < Len(bytes) /\ bytes[p + 1] = ByteA9 THEN EAcute ELSE FFFD
                 ELSE IF bytes[p] = ByteA9 THEN FFFD
                 ELSE bytes[p]
    IN  SelectSeq([p \in 1..Len(bytes) |-> At(p)], LAMBDA c : c # "(continuation)")

RECURSIVE Split(_)
\* chunk.split("\n"): the segments between line feeds, empty ones included
Split(chunk) ==
    LET p == IndexOf(chunk, <<LF>>)
    IN  IF p = 0 THEN <<chunk>>
        ELSE <<SubSeq(chunk, 1, p - 1)>> \o Split(From(chunk, p + 1))

\* main.ts:96  .filter((line) => line.trim() !== "")
NonBlank(lines) == SelectSeq(lines, LAMBDA line : Trim(line) # <<>>)

\* ---- JSON.parse, for the JSON texts the model's alphabet can spell: objects,
\* ---- strings with the one-character escapes, unsigned integers, true, false,
\* ---- null.  ("[", ".", "-", "\u" are not in the alphabet.)

NoVal == [t |-> "undefined", s |-> <<>>, m |-> <<>>]
Fail == [ok |-> FALSE, next |-> 0, val |-> NoVal]
Done(next, val) == [ok |-> TRUE, next |-> next, val |-> val]

Digits == {"0", "1", "2", "3", "4", "5", "6", "7", "8", "9"}
\* JSON whitespace
IsJsonWs(c) == c \in {" ", LF, CR, TAB}

Unescape(c) ==
    CASE c = DQ -> DQ
      [] c = BS -> BS
      [] c = "/" -> "/"
      [] c = "n" -> LF
      [] c = "r" -> CR
      [] c = "t" -> TAB
      [] c = "b" -> "U+0008"
      [] c = "f" -> "U+000C"

RECURSIVE SkipWs(_, _)
SkipWs(s, i) == IF i <= Len(s) /\ IsJsonWs(s[i]) THEN SkipWs(s, i + 1) ELSE i

RECURSIVE StringBody(_, _, _)
\* the characters of a string literal from position j, after its opening quote
StringBody(s, j, acc) ==
    IF j > Len(s) THEN Fail
    ELSE IF s[j] = DQ THEN Done(j + 1, [t |-> "string", s |-> acc, m |-> <<>>])
    ELSE IF s[j] = BS
    THEN IF j + 1 <= Len(s) /\ s[j + 1] \in {DQ, BS, "/", "n", "r", "t", "b", "f"}
         THEN StringBody(s, j + 2, Append(acc, Unescape(s[j + 1])))
         ELSE Fail
    ELSE IF s[j] \in {LF, CR, TAB} THEN Fail
    ELSE StringBody(s, j + 1, Append(acc, s[j]))

RECURSIVE DigitsEnd(_, _)
DigitsEnd(s, i) == IF i <= Len(s) /\ s[i] \in Digits THEN DigitsEnd(s, i + 1) ELSE i

\* an unsigned integer at position i: no leading zero
ParseNumber(s, i) ==
    LET e == IF s[i] = "0" THEN i + 1 ELSE DigitsEnd(s, i)
    IN  Done(e, [t |-> "number", s |-> SubSeq(s, i, e - 1), m |-> <<>>])

LitTrue == <<"t", "r", "u", "e">>
LitFalse == <<"f", "a", "l", "s", "e">>
LitNull == <<"n", "u", "l", "l">>

RECURSIVE ParseValue(_, _)
RECURSIVE ParseMembers(_, _, _)

\* the members of an object from position i (at a key), m those read so far
ParseMembers(s, i, m) ==
    IF i > Len(s) \/ s[i] # DQ THEN Fail
    ELSE LET k == StringBody(s, i + 1, <<>>)
         IN  IF ~k.ok THEN Fail
             ELSE LET c == SkipWs(s, k.next)
                  IN  IF c > Len(s) \/ s[c] # ":" THEN Fail
                      ELSE LET v == ParseValue(s, SkipWs(s, c + 1))
                           IN  IF ~v.ok THEN Fail
                               ELSE LET e == SkipWs(s, v.next)
                                        m2 == Append(m, [k |-> k.val.s, v |-> v.val])
                                    IN  IF e > Len(s) THEN Fail
                                        ELSE IF s[e] = "}"
                                        THEN Done(e + 1, [t |-> "object", s |-> <<>>, m |-> m2])
                                        ELSE IF s[e] = ","
                                        THEN ParseMembers(s, SkipWs(s, e + 1), m2)
                                        ELSE Fail

\* a JSON value at position i
ParseValue(s, i) ==
    IF i > Len(s) THEN Fail
    ELSE IF s[i] = "{"
    THEN LET j == SkipWs(s, i + 1)
         IN  IF j <= Len(s) /\ s[j] = "}"
             THEN Done(j + 1, [t |-> "object", s |-> <<>>, m |-> <<>>])
             ELSE ParseMembers(s, j, <<>>)
    ELSE IF s[i] = DQ THEN StringBody(s, i + 1, <<>>)
    ELSE IF s[i] \in Digits THEN ParseNumber(s, i)
    ELSE IF MatchAt(s, LitTrue, i) THEN Done(i + 4, [t |-> "true", s |-> <<>>, m |-> <<>>])
    ELSE IF MatchAt(s, LitFalse, i) THEN Done(i + 5, [t |-> "false", s |-> <<>>, m |-> <<>>])
    ELSE IF MatchAt(s, LitNull, i) THEN Done(i + 4, [t |-> "null", s |-> <<>>, m |-> <<>>])
    ELSE Fail

\* JSON.parse(line): one value with whitespace around it, or a SyntaxError
JSONParse(line) ==
    LET v == ParseValue(line, SkipWs(line, 1))
    IN  IF v.ok /\ SkipWs(line, v.next) > Len(line) THEN v ELSE Fail

KeyResponse == <<"r", "e", "s", "p", "o", "n", "s", "e">>

\* data.response for a parsed value that is not null: the last member named
\* "response" of an object, undefined for anything else
GetResponse(val) ==
    LET hits == {n \in 1..Len(val.m) : val.m[n].k = KeyResponse}
    IN  IF val.t # "object" \/ hits = {} THEN NoVal
        ELSE val.m[CHOOSE n \in hits : \A h \in hits : h <= n].v

\* JavaScript truthiness
Truthy(v) ==
    CASE v.t = "string" -> v.s # <<>>
      [] v.t = "number" -> v.s # <<"0">>
      [] v.t \in {"true", "object"} -> TRUE
      [] OTHER -> FALSE

\* what += appends for a value: ToString
ToStr(v) ==
    CASE v.t \in {"string", "number"} -> v.s
      [] v.t = "true" -> LitTrue
      [] v.t = "object" -> <<"[object Object]">>

\* a plausible slip: a line that does not parse is skipped
ProcessLineSkipBad(acc, line) ==
    LET p == JSONParse(line)
    IN  IF ~p.ok \/ p.val.t = "null" THEN [ok |-> TRUE, acc |-> acc]
        ELSE LET r == GetResponse(p.val)
             IN  [ok |-> TRUE, acc |-> IF Truthy(r) THEN acc \o ToStr(r) ELSE acc]

\* a plausible slip: each piece trimmed as it is appended
ProcessLineTrimEach(acc, line) ==
    LET p == JSONParse(line)
    IN  IF ~p.ok \/ p.val.t = "null" THEN [ok |-> FALSE, acc |-> acc]
        ELSE LET r == GetResponse(p.val)
             IN  [ok |-> TRUE, acc |-> IF Truthy(r) THEN acc \o Trim(ToStr(r)) ELSE acc]

\* main.ts:99-107  one line of a read: parse it and append its response.  A
\* line that does not parse, and the line "null" (whose data.response raises a
\* TypeError inside the same try), raise "Failed to parse response from Ollama".
ProcessLine(acc, line) ==
    LET p == JSONParse(line)
    IN  IF ~p.ok \/ p.val.t = "null" THEN [ok |-> FALSE, acc |-> acc]
        ELSE LET r == GetResponse(p.val)
             IN  [ok |-> TRUE, acc |-> IF Truthy(r) THEN acc \o ToStr(r) ELSE acc]

RECURSIVE ProcessLines(_, _)
\* main.ts:98-108  the for loop over a read's lines, left at the first failure
ProcessLines(acc, lines) ==
    IF lines = <<>> THEN [ok |-> TRUE, acc |-> acc]
    ELSE LET r == ProcessLine(acc, Head(lines))
         IN  IF r.ok THEN ProcessLines(r.acc, Tail(lines)) ELSE r

\* main.ts:95-108  one read: decode, split, drop blank lines, process
ProcessChunk(acc, value) == ProcessLines(acc, NonBlank(Split(Decode(value))))

\* ------------------------------------------------------ errors and notices

\* A thrown value: whether it is an instance of Error, whether its message is a
\* string, and the message as a sequence of phrases (includes() is computed
\* on phrases: each marker handleError looks for is one phrase).
Err(message) == [isError |-> TRUE, strMessage |-> TRUE, message |-> message]
NoError == [isError |-> FALSE, strMessage |-> FALSE, message |-> <<>>]

MarkerHTTP == "HTTP error"
MarkerParse == "Failed to parse response"
MarkerRead == "Unable to read response"

\* `${response.status}`
StatusText(status) ==
    CASE status = 200 -> "200"
      [] status = 404 -> "404"
      [] status = 500 -> "500"

\* main.ts:81
HttpError(status) == Err(<<MarkerHTTP, "! status: ", StatusText(status)>>)
\* main.ts:87
NoReaderError == Err(<<MarkerRead, " from Ollama">>)
\* main.ts:106
ParseError == Err(<<MarkerParse, " from Ollama">>)
\* what fetch and reader.read() reject with: a TypeError of the host
NetworkError == Err(<<"Failed to fetch">>)

\* response.ok
ResponseOk(status) == status >= 200 /\ status <= 299

NoSelectionTimeout == 5000
LoadingTimeout == 0
SuccessTimeout == 3000
ErrorTimeout == 10000

NoSelectionText == <<"No text selected. Please select the text you want to convert to LaTeX.">>
LoadingText == <<"Converting to LaTeX...">>
SuccessText == <<"Successfully converted to LaTeX!">>
UnexpectedText == <<"An unexpected error occurred while converting to LaTeX.">>
ConnectText == "Failed to connect to Ollama. Please ensure Ollama is running and accessible at http://localhost:11434. Error: "
InvalidText == "Received an invalid response from Ollama. The model might be having issues. Error: "
InterruptedText == "Failed to read the response from Ollama. The connection might have been interrupted. Error: "
GenericText == "Error converting to LaTeX: "

Notice(text, timeout) == [text |-> text, timeout |-> timeout]

\* a plausible slip: the parse rule tested before the HTTP rule
HandleErrorMessageParseFirst(error) ==
    IF error.isError
    THEN IF Includes(error.message, <<MarkerParse>>) THEN <<InvalidText>> \o error.message
         ELSE IF Includes(error.message, <<MarkerHTTP>>) THEN <<ConnectText>> \o error.message
         ELSE IF Includes(error.message, <<MarkerRead>>) THEN <<InterruptedText>> \o error.message
         ELSE <<GenericText>> \o error.message
    ELSE UnexpectedText

\* main.ts:119-131  the text handleError shows
HandleErrorMessage(error) ==
    IF error.isError
    THEN IF Includes(error.message, <<MarkerHTTP>>) THEN <<ConnectText>> \o error.message
         ELSE IF Includes(error.message, <<MarkerParse>>) THEN <<InvalidText>> \o error.message
         ELSE IF Includes(error.message, <<MarkerRead>>) THEN <<InterruptedText>> \o error.message
         ELSE <<GenericText>> \o error.message
    ELSE UnexpectedText

\* ------------------------------------------------------------- the editor

\* editor.getSelection()
GetSelection(d, s) == SubSeq(d, s.from + 1, s.to)

\* editor.replaceSelection(text): the selected range is replaced and the
\* cursor is left, collapsed, after the inserted text
ReplaceSelection(d, s, text) ==
    [doc |-> SubSeq(d, 1, s.from) \o text \o From(d, s.to + 1),
     sel |-> [from |-> s.from + Len(text), to |-> s.from + Len(text)]]

\* ------------------------------------------------------- convertToLatex

Idle ==
    [pc |-> "idle", selection |-> <<>>, selAt |-> [from |-> 0, to |-> 0],
     sanitizedInput |-> <<>>, prompt |-> <<>>, requests |-> 0,
     status |-> 0, body |-> <<>>, pos |-> 0, reads |-> <<>>,
     latexEquation |-> <<>>, returned |-> [ok |-> FALSE, val |-> <<>>],
     error |-> NoError, cause |-> "none", caught |-> FALSE, escaped |-> FALSE,
     notices |-> <<>>, loading |-> "none", hides |-> 0, replaced |-> <<>>]

\* main.ts:54-56  finally: loadingNotice.hide(), and the invocation is over
Finally(r) == [r EXCEPT !.pc = "done", !.loading = "hidden", !.hides = @ + 1]

\* a plausible slip: the notice hidden at the end of the catch block instead of
\* in a finally, so an exception inside handleError leaves it visible
CatchNoFinally(r, error) ==
    IF error.isError /\ ~error.strMessage
    THEN [r EXCEPT !.pc = "done", !.error = error, !.caught = TRUE, !.escaped = TRUE]
    ELSE Finally([r EXCEPT !.error = error, !.caught = TRUE,
                           !.notices = Append(@, Notice(HandleErrorMessage(error), ErrorTimeout))])

\* main.ts:52-56,118-135  catch: handleError(error), then finally.  For an Error
\* whose message is not a string, error.message.includes raises a TypeError
\* inside handleError: no notice is shown and the exception leaves
\* convertToLatex, after the finally block.
Catch(r, error) ==
    IF error.isError /\ ~error.strMessage
    THEN Finally([r EXCEPT !.error = error, !.caught = TRUE, !.escaped = TRUE])
    ELSE Finally([r EXCEPT !.error = error, !.caught = TRUE,
                           !.notices = Append(@, Notice(HandleErrorMessage(error), ErrorTimeout))])

\* main.ts:111  return latexEquation.trim()
Return(latexEquation) == Trim(latexEquation)

\* a plausible slip: the document is written before the failure is known
FailWritesPartial(r, error) ==
    Catch([r EXCEPT !.replaced = Append(@, [text |-> r.latexEquation, old |-> <<>>,
                                            range |-> r.selAt])], error)

\* main.ts:112-115  callLocalLLM fails: the error is logged and rethrown to
\* convertToLatex's catch
Fail_callLocalLLM(r, error) == Catch(r, error)

\* a plausible slip: the empty selection is not checked
StartNoCheck(r, d, s, template) ==
    LET selection == GetSelection(d, s)
    IN  [r EXCEPT !.pc = "fetch", !.selection = selection, !.selAt = s,
                  !.notices = Append(@, Notice(LoadingText, LoadingTimeout)),
                  !.loading = "visible",
                  !.sanitizedInput = Sanitize(selection),
                  !.prompt = BuildPrompt(template, Sanitize(selection)),
                  !.requests = @ + 1]

\* main.ts:39-78  convertToLatex up to the await of fetch, on document d with
\* selection s and prompt template template: the empty selection is refused
\* with a notice; otherwise the progress notice is shown, the prompt built and
\* the request sent
Start(r, d, s, template) ==
    LET selection == GetSelection(d, s)
    IN  IF selection = <<>>
        THEN [r EXCEPT !.pc = "done", !.selAt = s,
                       !.notices = Append(@, Notice(NoSelectionText, NoSelectionTimeout))]
        ELSE [r EXCEPT !.pc = "fetch", !.selection = selection, !.selAt = s,
                       !.notices = Append(@, Notice(LoadingText, LoadingTimeout)),
                       !.loading = "visible",
                       !.sanitizedInput = Sanitize(selection),
                       !.prompt = BuildPrompt(template, Sanitize(selection)),
                       !.requests = @ + 1]

\* a plausible slip: a second command is refused while one is in flight
InvokeExclusive(i) ==
    /\ inv[i].pc = "idle"
    /\ \A j \in Invocations : inv[j].pc \in {"idle", "done"}
    /\ inv' = [inv EXCEPT ![i] = Start(@, doc, sel, llmPrompt)]
    /\ log' = Append(log, [ev |-> "invoke", i |-> i])
    /\ UNCHANGED <<doc, sel, llmPrompt>>

\* main.ts:22-26,39  the command "Convert to LaTeX" is run: its callback calls
\* convertToLatex(editor), whatever other invocations are doing
Invoke(i) ==
    /\ inv[i].pc = "idle"
    /\ inv' = [inv EXCEPT ![i] = Start(@, doc, sel, llmPrompt)]
    /\ log' = Append(log, [ev |-> "invoke", i |-> i])
    /\ UNCHANGED <<doc, sel, llmPrompt>>

\* main.ts:67-78,112-115  fetch rejects (the server cannot be reached)
FetchReject(i) ==
    /\ inv[i].pc = "fetch"
    /\ inv' = [inv EXCEPT ![i] = Fail_callLocalLLM([@ EXCEPT !.cause = "fetch"], NetworkError)]
    /\ log' = Append(log, [ev |-> "failed", i |-> i])
    /\ UNCHANGED <<doc, sel, llmPrompt>>

\* main.ts:67-90  fetch resolves with a response: its status, whether it has a
\* body, and the bytes the body will deliver
FetchResolve(i, status, hasBody, body) ==
    /\ inv[i].pc = "fetch"
    /\ IF ~ResponseOk(status)
       THEN /\ inv' = [inv EXCEPT ![i] = Fail_callLocalLLM([@ EXCEPT !.status = status, !.cause = "status"], HttpError(status))]
            /\ log' = Append(log, [ev |-> "failed", i |-> i])
       ELSE IF ~hasBody
       THEN /\ inv' = [inv EXCEPT ![i] = Fail_callLocalLLM([@ EXCEPT !.status = status, !.cause = "body"], NoReaderError)]
            /\ log' = Append(log, [ev |-> "failed", i |-> i])
       ELSE /\ inv' = [inv EXCEPT ![i] = [@ EXCEPT !.pc = "read", !.status = status,
                                                  !.body = body, !.latexEquation = <<>>]]
            /\ log' = log
    /\ UNCHANGED <<doc, sel, llmPrompt>>

\* main.ts:92-109  reader.read() resolves with the next n bytes of the body
Read(i, n) ==
    /\ inv[i].pc = "read"
    /\ n >= 1
    /\ inv[i].pos + n <= Len(inv[i].body)
    /\ (Len(inv[i].reads) + 1 >= MaxReads) => (inv[i].pos + n = Len(inv[i].body))
    /\ LET value == SubSeq(inv[i].body, inv[i].pos + 1, inv[i].pos + n)
           res == ProcessChunk(inv[i].latexEquation, value)
           r == [inv[i] EXCEPT !.pos = @ + n, !.reads = Append(@, value),
                               !.latexEquation = res.acc]
       IN  IF res.ok
           THEN /\ inv' = [inv EXCEPT ![i] = r]
                /\ log' = log
           ELSE /\ inv' = [inv EXCEPT ![i] = Fail_callLocalLLM([r EXCEPT !.cause = "line"], ParseError)]
                /\ log' = Append(log, [ev |-> "failed", i |-> i])
    /\ UNCHANGED <<doc, sel, llmPrompt>>

\* main.ts:92,112-115  reader.read() rejects (the connection is lost)
ReadReject(i) ==
    /\ inv[i].pc = "read"
    /\ inv' = [inv EXCEPT ![i] = Fail_callLocalLLM([@ EXCEPT !.cause = "read"], NetworkError)]
    /\ log' = Append(log, [ev |-> "failed", i |-> i])
    /\ UNCHANGED <<doc, sel, llmPrompt>>

NoThrow == [isError |-> FALSE, strMessage |-> TRUE, message |-> <<"no exception">>]

\* main.ts:93,111,49-56  reader.read() resolves with done: callLocalLLM returns
\* the trimmed text and convertToLatex resumes.  thrown is what
\* editor.replaceSelection throws, NoThrow if it returns.
ReadDone(i, thrown) ==
    /\ inv[i].pc = "read"
    /\ inv[i].pos = Len(inv[i].body)
    /\ LET val == Return(inv[i].latexEquation)
           r == [inv[i] EXCEPT !.returned = [ok |-> TRUE, val |-> val],
                               !.replaced = Append(@, [text |-> val,
                                                       old |-> GetSelection(doc, sel),
                                                       range |-> sel])]
           e == ReplaceSelection(doc, sel, val)
       IN  IF thrown = NoThrow
           THEN /\ doc' = e.doc
                /\ sel' = e.sel
                /\ inv' = [inv EXCEPT ![i] =
                       Finally([r EXCEPT !.notices = Append(@, Notice(SuccessText, SuccessTimeout))])]
                /\ log' = log \o <<[ev |-> "returned", i |-> i], [ev |-> "replace", i |-> i]>>
           ELSE /\ inv' = [inv EXCEPT ![i] = Catch([r EXCEPT !.cause = "replaceSelection"], thrown)]
                /\ log' = log \o <<[ev |-> "returned", i |-> i], [ev |-> "threw", i |-> i]>>
                /\ UNCHANGED <<doc, sel>>
    /\ UNCHANGED llmPrompt

\* the user moves the selection while requests are in flight
UserSelect(range) ==
    /\ range # sel
    /\ range.from <= range.to
    /\ range.to <= Len(doc)
    /\ sel' = range
    /\ UNCHANGED <<doc, llmPrompt, inv, log>>

\* ------------------------------------------------------------ the inputs

Q(str) == <<DQ>> \o str \o <<DQ>>
\* the line {"response":"<str>"}, str as spelled in the JSON text
RespLine(str) == <<"{">> \o Q(KeyResponse) \o <<":">> \o Q(str) \o <<"}">>
\* the line {"response":"","done":true} that ends a generation
FinalLine ==
    <<"{">> \o Q(KeyResponse) \o <<":">> \o Q(<<>>) \o <<",">>
            \o Q(<<"d", "o", "n", "e">>) \o <<":">> \o LitTrue \o <<"}">>
\* the line {"done":false}, which has no response field
NoRespLine == <<"{">> \o Q(<<"d", "o", "n", "e">>) \o <<":">> \o LitFalse \o <<"}">>
NotJsonLine == <<"n", "o", "t", "-", "j", "s", "o", "n">>

RECURSIVE Lines(_)
\* a body: each line followed by a line feed
Lines(ls) == IF ls = <<>> THEN <<>> ELSE Head(ls) \o <<LF>> \o Lines(Tail(ls))

\* response bodies of JSON object lines only
ObjectBodies ==
    { Lines(<<RespLine(<<" ", BS, BS, "a">>), RespLine(<<" ", "b", " ">>), FinalLine>>),
      Lines(<<RespLine(<<"a">>) \o <<CR>>, <<" ">>, NoRespLine \o <<" ">>, RespLine(<<"b">>)>>),
      Lines(<<RespLine(<<ByteC3, ByteA9>>)>>),
      RespLine(<<"a", BS, "n">>),
      <<>> }

\* other bodies: an unparsable line after a valid one, the line null, numbers
OtherBodies ==
    { Lines(<<RespLine(<<"a">>), NotJsonLine>>),
      Lines(<<RespLine(<<"a">>), LitNull>>),
      Lines(<<<<"1", "2">>, RespLine(<<"c">>)>>) }

Bodies == ObjectBodies \cup OtherBodies

Statuses == {200, 404, 500}

\* what editor.replaceSelection may throw
Thrown ==
    { Err(<<MarkerHTTP, MarkerParse>>),
      Err(<<MarkerRead, MarkerParse>>),
      Err(<<"boom">>),
      [isError |-> FALSE, strMessage |-> TRUE, message |-> <<MarkerHTTP>>],
      [isError |-> TRUE, strMessage |-> FALSE, message |-> <<>>] }

Doc0 == <<"x", " ", "y">>
Range(a, b) == [from |-> a, to |-> b]
InitSelections == {Range(0, 1), Range(0, 3), Range(1, 1)}

\* "{input}" in quotes, as in DEFAULT_SETTINGS.llmPrompt (main.ts:12)
QuotedTemplate == <<"p", DQ>> \o Placeholder \o <<DQ, "$">>
Templates ==
    { QuotedTemplate,
      <<"p">>,
      Placeholder \o <<"+">> \o Placeholder,
      <<"{", "i", "n">> \o Placeholder }

InputAlphabet == {BS, DQ, "$", "&", "a"}

RECURSIVE Strings(_)
\* the strings over InputAlphabet of length at most n
Strings(n) ==
    IF n = 0 THEN {<<>>}
    ELSE Strings(n - 1) \cup {Append(s, c) : s \in Strings(n - 1), c \in InputAlphabet}

SpecExample == <<"a", DQ, "b", BS, "c">>
Inputs ==
    Strings(MaxInputLen) \cup {SpecExample, Placeholder, <<"a", "$", SQ>>, <<"$", BT, "a">>}

\* ------------------------------------------------------ the specifications

\* one invocation, every response and every division of it into reads
Init ==
    /\ doc = Doc0
    /\ sel \in InitSelections
    /\ llmPrompt = QuotedTemplate
    /\ inv = [i \in Invocations |-> Idle]
    /\ log = <<>>

Next ==
    \/ Invoke(1)
    \/ FetchReject(1)
    \/ \E status \in Statuses, hasBody \in BOOLEAN, body \in Bodies :
          FetchResolve(1, status, hasBody, body)
    \/ \E n \in 1..Len(inv[1].body) : Read(1, n)
    \/ ReadReject(1)
    \/ \E thrown \in Thrown \cup {NoThrow} : ReadDone(1, thrown)

Spec == Init /\ [][Next]_vars

\* several invocations on one editor, the user moving the selection meanwhile;
\* bodies arrive line by line
RaceBodies ==
    { Lines(<<RespLine(<<"A">>)>>),
      Lines(<<RespLine(<<"B">>)>>) }

\* the bytes up to and including the next line feed
LineLen(r) ==
    LET rest == From(r.body, r.pos + 1)
        p == IndexOf(rest, <<LF>>)
    IN  IF p = 0 THEN Len(rest) ELSE p

UserRanges == {Range(0, 1), Range(2, 3)}

InitRace ==
    /\ doc = Doc0
    /\ sel = Range(0, 1)
    /\ llmPrompt = QuotedTemplate
    /\ inv = [i \in Invocations |-> Idle]
    /\ log = <<>>

NextRace ==
    \/ \E i \in Invocations : Invoke(i)
    \/ \E i \in Invocations, body \in RaceBodies : FetchResolve(i, 200, TRUE, body)
    \/ \E i \in Invocations : Read(i, LineLen(inv[i]))
    \/ \E i \in Invocations : ReadDone(i, NoThrow)
    \/ \E range \in UserRanges : UserSelect(range)

SpecRace == InitRace /\ [][NextRace]_vars

\* the prompt of one invocation, for every selection text and template
InitPrompt ==
    /\ doc \in Inputs
    /\ sel = Range(0, Len(doc))
    /\ llmPrompt \in Templates
    /\ inv = [i \in Invocations |-> Idle]
    /\ log = <<>>

NextPrompt == Invoke(1)

SpecPrompt == InitPrompt /\ [][NextPrompt]_vars

\* ------------------------------------------------------------- the claims

Last(q) == q[Len(q)]

\* the non-blank lines of all reads, in arrival order
ArrivedLines(reads) ==
    Flatten([k \in 1..Len(reads) |-> NonBlank(Split(Decode(reads[k])))])

\* the response text a line carries, the empty text if it carries none
ResponseText(line) ==
    LET v == JSONParse(line).val
    IN  IF v.t = "object" /\ \E n \in 1..Len(v.m) : v.m[n].k = KeyResponse
        THEN GetResponse(v).s
        ELSE <<>>

ExpectedOutput(reads) ==
    LET ls == ArrivedLines(reads)
    IN  Trim(Flatten([k \in 1..Len(ls) |-> ResponseText(ls[k])]))

\* C1: when callLocalLLM consumes the stream without failure, the string it
\* returns, which is the string passed to editor.replaceSelection, is the
\* concatenation in arrival order of the response fields of the lines read,
\* trimmed once at the end.
C1_AccumulatedOutput ==
    \A i \in Invocations :
        inv[i].returned.ok =>
            /\ inv[i].selection # <<>>
            /\ inv[i].returned.val = ExpectedOutput(inv[i].reads)
            /\ Len(inv[i].replaced) = 1
            /\ inv[i].replaced[1].text = ExpectedOutput(inv[i].reads)

C1_Witness ==
    \E i \in Invocations :
        /\ inv[i].returned.ok
        /\ Len(inv[i].reads) >= 2
        /\ Len(ArrivedLines(inv[i].reads)) >= 3
        /\ inv[i].returned.val # <<>>
        /\ inv[i].returned.val # inv[i].latexEquation
        /\ doc = SubSeq(Doc0, 1, inv[i].selAt.from) \o inv[i].returned.val
                   \o From(Doc0, inv[i].selAt.to + 1)

\* C2: when callLocalLLM fails, editor.replaceSelection is never called, the
\* document and the selection are as they were, exactly one request was
\* issued, and an error notice is shown after the progress notice.
C2_FailureLeavesDocument ==
    \A i \in Invocations :
        (inv[i].pc = "done" /\ inv[i].caught /\ ~inv[i].returned.ok) =>
            /\ inv[i].replaced = <<>>
            /\ doc = Doc0
            /\ sel = inv[i].selAt
            /\ inv[i].requests = 1
            /\ Len(inv[i].notices) = 2
            /\ inv[i].notices[2].timeout = ErrorTimeout
            /\ inv[i].notices[2].text = HandleErrorMessage(inv[i].error)

C2_Witness ==
    \E i \in Invocations :
        /\ inv[i].pc = "done"
        /\ inv[i].cause = "line"
        /\ inv[i].latexEquation # <<>>
        /\ Len(inv[i].reads) >= 2
        /\ inv[i].replaced = <<>>
        /\ doc = Doc0

LoadingShown(r) == \E k \in 1..Len(r.notices) : r.notices[k].text = LoadingText

\* C3: an invocation that showed the progress notice and has finished has
\* hidden it exactly once, on every exit path; the notice is never visible
\* after the invocation has finished and never hidden twice.
C3_LoadingNoticeHidden ==
    \A i \in Invocations :
        /\ inv[i].hides <= 1
        /\ inv[i].pc = "done" => inv[i].loading # "visible"
        /\ (inv[i].pc = "done" /\ LoadingShown(inv[i])) =>
               (inv[i].loading = "hidden" /\ inv[i].hides = 1)
        /\ inv[i].loading = "visible" => inv[i].pc \in {"fetch", "read"}

C3_Witness ==
    \E i \in Invocations :
        /\ inv[i].pc = "done"
        /\ inv[i].cause = "replaceSelection"
        /\ inv[i].escaped
        /\ inv[i].loading = "hidden"
        /\ inv[i].hides = 1

\* C4: invoked with an empty selection, convertToLatex shows the transient
\* "No text selected" notice and returns: no request, no progress notice, no
\* call of editor.replaceSelection, no exception, no error reporter.
C4_EmptySelection ==
    \A i \in Invocations :
        (inv[i].pc # "idle" /\ inv[i].selAt.from = inv[i].selAt.to) =>
            /\ inv[i].pc = "done"
            /\ inv[i].notices = <<Notice(NoSelectionText, NoSelectionTimeout)>>
            /\ NoSelectionTimeout > 0
            /\ inv[i].requests = 0
            /\ inv[i].loading = "none"
            /\ inv[i].replaced = <<>>
            /\ ~inv[i].caught
            /\ ~inv[i].escaped
            /\ doc = Doc0

C4_Witness ==
    \E i \in Invocations :
        /\ inv[i].pc = "done"
        /\ inv[i].selAt.from = inv[i].selAt.to
        /\ Len(inv[i].notices) = 1

\* C5 (as claimed): a successful convertToLatex replaces exactly the selection
\* that was read when the command was invoked, in every interleaving.
C5_ReplacesSelectionRead ==
    \A i \in Invocations :
        (inv[i].pc = "done" /\ inv[i].returned.ok) =>
            /\ inv[i].replaced[1].range = inv[i].selAt
            /\ inv[i].replaced[1].old = inv[i].selection

\* each backslash doubled, each double quote preceded by a backslash, in one
\* pass over the input
EscapeEach(input) ==
    Flatten([k \in 1..Len(input) |->
                IF input[k] = BS THEN <<BS, BS>>
                ELSE IF input[k] = DQ THEN <<BS, DQ>>
                ELSE <<input[k]>>])

\* C6: the sanitized input is the input with each backslash doubled and each
\* double quote preceded by one backslash, everything else unchanged.
C6_Sanitization ==
    \A i \in Invocations :
        inv[i].pc = "fetch" => inv[i].sanitizedInput = EscapeEach(inv[i].selection)

C6_Witness ==
    \E i \in Invocations :
        /\ inv[i].pc = "fetch"
        /\ inv[i].selection = SpecExample
        /\ inv[i].sanitizedInput = <<"a", BS, DQ, "b", BS, BS, "c">>

\* the template with its first "{input}" replaced by text, character for
\* character
SubstituteFirst(template, text) ==
    LET p == IndexOf(template, Placeholder)
    IN  IF p = 0 THEN template
        ELSE SubSeq(template, 1, p - 1) \o text \o From(template, p + Len(Placeholder))

\* C7 (as claimed): the prompt sent is the template with only the first
\* "{input}" replaced by the sanitized input, character for character,
\* whatever characters the input contains.
C7_PromptSubstitution ==
    \A i \in Invocations :
        inv[i].pc = "fetch" =>
            inv[i].prompt = SubstituteFirst(llmPrompt, inv[i].sanitizedInput)

\* the invocations named by the events ev of the log, in order
Order(ev) ==
    LET es == SelectSeq(log, LAMBDA e : e.ev = ev)
    IN  [k \in 1..Len(es) |-> es[k].i]

\* C8: a command can always be started, whatever is in flight; conversions call
\* editor.replaceSelection in the order in which their responses complete; and
\* after a replacement the text at the selection that was current is the
\* output of the conversion that completed last.
C8_LastWriter ==
    /\ \A i \in Invocations : inv[i].pc = "idle" => ENABLED Invoke(i)
    /\ Order("replace") = Order("returned")
    /\ (log # <<>> /\ Last(log).ev = "replace") =>
           LET r == inv[Last(log).i]
               at == r.replaced[1].range.from
           IN  /\ r.returned.ok
               /\ SubSeq(doc, at + 1, at + Len(r.returned.val)) = r.returned.val

C8_Witness ==
    /\ Len(log) = 6
    /\ log[1] = [ev |-> "invoke", i |-> 1]
    /\ log[2] = [ev |-> "invoke", i |-> 2]
    /\ log[4] = [ev |-> "replace", i |-> 2]
    /\ log[6] = [ev |-> "replace", i |-> 1]
    /\ inv[1].selection # <<>>
    /\ inv[2].selection # <<>>
    /\ inv[1].returned.val # inv[2].returned.val
    /\ SubSeq(doc, sel.from - Len(inv[1].returned.val) + 1, sel.from) = inv[1].returned.val

\* the rules of the error reporter, in their order
Rules ==
    << [marker |-> MarkerHTTP, text |-> ConnectText],
       [marker |-> MarkerParse, text |-> InvalidText],
       [marker |-> MarkerRead, text |-> InterruptedText] >>

FirstRuleMessage(error) ==
    LET matching == {k \in 1..Len(Rules) : Includes(error.message, <<Rules[k].marker>>)}
    IN  IF ~error.isError THEN UnexpectedText
        ELSE IF matching = {} THEN <<GenericText>> \o error.message
        ELSE <<Rules[CHOOSE k \in matching : \A j \in matching : k <= j].text>> \o error.message

ErrorNotices(r) == SelectSeq(r.notices, LAMBDA n : n.timeout = ErrorTimeout)

Whole(body) == ProcessChunk(<<>>, body)

RECURSIVE Outcomes(_, _, _)
\* the strings callLocalLLM can return for the bytes rest, over every division
\* of them into at most k reads that it consumes without failure
Outcomes(acc, rest, k) ==
    IF rest = <<>> THEN {Return(acc)}
    ELSE IF k = 0 THEN {}
    ELSE UNION { LET r == ProcessChunk(acc, SubSeq(rest, 1, n))
                 IN  IF r.ok THEN Outcomes(r.acc, From(rest, n + 1), k - 1) ELSE {}
                 : n \in 1..Len(rest) }

\* C10 (as claimed): for a request in flight there is a stream of JSON object
\* lines and a division of it into reads for which callLocalLLM completes
\* without error yet returns a string other than the one it returns when the
\* lines arrive whole.
C10_SilentCorruption ==
    \A i \in Invocations :
        inv[i].pc = "fetch" =>
            \E body \in ObjectBodies :
                \E out \in Outcomes(inv[i].latexEquation, body, MaxReads) :
                    out # Return(Whole(body).acc)

\* C10 (amended): for a stream that is consumed without failure when it
\* arrives whole, every division into reads either fails or returns the same
\* string: a line split across two reads is never silently corrupted.
C10_SplitFailsOrAgrees ==
    \A i \in Invocations :
        (inv[i].returned.ok /\ Whole(inv[i].body).ok) =>
            inv[i].returned.val = Return(Whole(inv[i].body).acc)

C10_Witness ==
    \E i \in Invocations :
        /\ inv[i].returned.ok
        /\ inv[i].body \in ObjectBodies
        /\ inv[i].returned.val # <<>>
        /\ \E k \in 1..(Len(inv[i].reads) - 1) : Last(inv[i].reads[k]) # LF

====
